---- MODULE Spec2Model ----
(***************************************************************************)
(* Model of astrbot_plugin_chat_polisher (src/main.py): the marker store,  *)
(* the pre-send hook, the segment rewriter and the error substitution.     *)
(*                                                                         *)
(* A text is a sequence of one-character strings.  A message segment is a  *)
(* record [kind, text, id]: Comp.Plain carries text, every other component *)
(* carries an id.  A frame is one invocation of force_polish_before_send;  *)
(* frames of the same context share the _POLISHING_GUARD context variable. *)
(***************************************************************************)
EXTENDS Integers, Sequences, FiniteSets, TLC

\* ---------------------------------------------------------------- bounds
MaxLen == 3          \* longest result chain of the first event
MaxNow == 20         \* the monotonic clock stops advancing here
TickSeconds == 10    \* the clock advances in steps of this many seconds
MaxErrors == 1       \* cleanup passes that raise an unexpected error
MaxTerminate == 2    \* calls of terminate

\* ------------------------------------------------------------- text, chain
Whitespace == {" ", "\n"}

TextVals == {<<" ">>, <<"a">>}
OpaqueIds == {1, 2}

Plain(t) == [kind |-> "Plain", text |-> t, id |-> 0]
Opaque(n) == [kind |-> "Opaque", text |-> <<>>, id |-> n]

IsPlain(comp) == comp.kind = "Plain"

Segments == {Plain(t) : t \in TextVals} \cup {Opaque(n) : n \in OpaqueIds}

RECURSIVE SeqsUpTo(_, _)
SeqsUpTo(S, n) ==
    IF n = 0 THEN {<<>>}
    ELSE LET shorter == SeqsUpTo(S, n - 1)
         IN  shorter \cup {Append(s, x) : s \in {q \in shorter : Len(q) = n - 1}, x \in S}

Chains(n) == SeqsUpTo(Segments, n)

\* the result chain of the second event
Chains2 == {<<Opaque(1), Plain(<<"a">>)>>}

\* str.strip(): drop leading and trailing whitespace
RECURSIVE LStrip(_)
LStrip(t) ==
    IF t = <<>> THEN <<>>
    ELSE IF Head(t) \in Whitespace THEN LStrip(Tail(t)) ELSE t

RECURSIVE RStrip(_)
RStrip(t) ==
    IF t = <<>> THEN <<>>
    ELSE IF t[Len(t)] \in Whitespace THEN RStrip(SubSeq(t, 1, Len(t) - 1)) ELSE t

Strip(t) == RStrip(LStrip(t))

\* "\n".join(comp.text for comp in buffer)
RECURSIVE JoinNewline(_)
JoinNewline(buffer) ==
    IF buffer = <<>> THEN <<>>
    ELSE IF Len(buffer) = 1 THEN buffer[1].text
    ELSE buffer[1].text \o <<"\n">> \o JoinNewline(Tail(buffer))

\* ------------------------------------------------------------ configuration
FailureModeRaw == {"fallback_original", "send_error", "unrecognized"}
PolishProviderRaw == {"", "pid"}
RetentionRaw == {5}

\* _get_failure_mode: the mapping's keys map to themselves, anything else
\* falls back to "fallback_original"
GetFailureMode(config) ==
    IF config.failure_mode \in {"fallback_original", "send_error"}
    THEN config.failure_mode
    ELSE "fallback_original"

\* _get_failure_message with the default configuration
GetFailureMessage == <<"E">>

\* _get_mark_retention_seconds: max(value, 10.0)
GetMarkRetentionSeconds(config) ==
    IF config.mark_retention_seconds > 10 THEN config.mark_retention_seconds ELSE 10

\* --------------------------------------------------------- provider outcomes
None == <<"None">>

Completions == {<<"p">>, <<" ", "q", "\n">>, <<" ">>, <<>>}

Outcomes ==
    {[kind |-> "resp", completion_text |-> c] : c \in Completions}
      \cup {[kind |-> k, completion_text |-> <<>>] :
              k \in {"timeout", "error", "no_resp", "cancelled"}}

\* faulty variant: the cancellation is caught by the generic handler
PolishTextSwallowsCancel(outcome) == FALSE

\* _polish_text: asyncio.CancelledError is raised again, lines 164-165
PolishTextRaises(outcome) == outcome.kind = "cancelled"

\* _polish_text after the await: None on timeout, on any other exception and
\* on a blank completion; the stripped completion otherwise
PolishTextResult(outcome) ==
    IF outcome.kind \in {"timeout", "error"} THEN None
    ELSE LET polished == IF outcome.kind = "resp"
                         THEN Strip(outcome.completion_text) ELSE <<>>
         IN  IF polished = <<>> THEN None ELSE polished

\* ---------------------------------------------------------- segment rewriter
\* locals of _polish_chain_segments; i is the index of the next component
NewLocals == [i |-> 1, new_chain |-> <<>>, buffer |-> <<>>, has_plain |-> FALSE]

\* faulty variant: a blank joined text is sent to the provider as well
FlushNeedsCallNoStrip(buffer) == buffer # <<>>

\* flush_plain_buffer reaches the await of _polish_text
FlushNeedsCall(buffer) ==
    /\ buffer # <<>>
    /\ Strip(JoinNewline(buffer)) # <<>>

\* flush_plain_buffer returning True without a call: empty buffer, or blank text
FlushNoCall(st) ==
    IF st.buffer = <<>> THEN st
    ELSE [st EXCEPT !.new_chain = @ \o st.buffer, !.buffer = <<>>]

\* faulty variant: the buffer is not emptied after a successful rewrite
FlushResumeKeepsBuffer(st, polished_text, mode) ==
    IF polished_text = None
    THEN IF mode = "fallback_original"
         THEN [ok |-> TRUE,
               st |-> [st EXCEPT !.new_chain = @ \o st.buffer, !.buffer = <<>>]]
         ELSE [ok |-> FALSE, st |-> [st EXCEPT !.buffer = <<>>]]
    ELSE [ok |-> TRUE,
          st |-> [st EXCEPT !.new_chain = Append(@, Plain(polished_text))]]

\* faulty variant: a failed run is dropped instead of passed through
FlushResumeDropsOnFailure(st, polished_text, mode) ==
    IF polished_text = None
    THEN IF mode = "fallback_original"
         THEN [ok |-> TRUE, st |-> [st EXCEPT !.buffer = <<>>]]
         ELSE [ok |-> FALSE, st |-> [st EXCEPT !.buffer = <<>>]]
    ELSE [ok |-> TRUE,
          st |-> [st EXCEPT !.new_chain = Append(@, Plain(polished_text)),
                            !.buffer = <<>>]]

\* flush_plain_buffer after _polish_text has returned polished_text
FlushResume(st, polished_text, mode) ==
    IF polished_text = None
    THEN IF mode = "fallback_original"
         THEN [ok |-> TRUE,
               st |-> [st EXCEPT !.new_chain = @ \o st.buffer, !.buffer = <<>>]]
         ELSE [ok |-> FALSE, st |-> [st EXCEPT !.buffer = <<>>]]
    ELSE [ok |-> TRUE,
          st |-> [st EXCEPT !.new_chain = Append(@, Plain(polished_text)),
                            !.buffer = <<>>]]

\* is_input: the returned list is the chain argument itself, not a new list
Returned(success, chain, is_input, st) ==
    [kind |-> "return", success |-> success, chain |-> chain,
     is_input |-> is_input, text |-> <<>>, st |-> st]

Awaiting(chain, st) ==
    [kind |-> "await", success |-> FALSE, chain |-> chain, is_input |-> FALSE,
     text |-> Strip(JoinNewline(st.buffer)), st |-> st]

\* _polish_chain_segments from one suspension point to the next: Walk runs the
\* for loop from component st.i, AfterFlush continues after a flush returned ok
RECURSIVE Walk(_, _)
RECURSIVE AfterFlush(_, _, _)

\* faulty variant: the non-Text component after a flush is not appended
AfterFlushDropsComp(chain, st, ok) ==
    IF ~ok THEN Returned(FALSE, chain, TRUE, st)
    ELSE IF st.i <= Len(chain)
         THEN Walk(chain, [st EXCEPT !.i = @ + 1])
         ELSE IF ~st.has_plain THEN Returned(TRUE, chain, TRUE, st)
              ELSE Returned(TRUE, st.new_chain, FALSE, st)

\* faulty variant: no short circuit for a chain without Plain segments
AfterFlushNoShortCircuit(chain, st, ok) ==
    IF ~ok THEN Returned(FALSE, chain, TRUE, st)
    ELSE IF st.i <= Len(chain)
         THEN Walk(chain, [st EXCEPT !.new_chain = Append(@, chain[st.i]),
                                     !.i = @ + 1])
         ELSE Returned(TRUE, st.new_chain, FALSE, st)

\* faulty variant: an aborted rewrite returns the partly rewritten chain
AfterFlushReturnsPartial(chain, st, ok) ==
    IF ~ok THEN Returned(FALSE, st.new_chain, FALSE, st)
    ELSE IF st.i <= Len(chain)
         THEN Walk(chain, [st EXCEPT !.new_chain = Append(@, chain[st.i]),
                                     !.i = @ + 1])
         ELSE IF ~st.has_plain THEN Returned(TRUE, chain, TRUE, st)
              ELSE Returned(TRUE, st.new_chain, FALSE, st)

AfterFlush(chain, st, ok) ==
    IF ~ok THEN Returned(FALSE, chain, TRUE, st)
    ELSE IF st.i <= Len(chain)
         THEN Walk(chain, [st EXCEPT !.new_chain = Append(@, chain[st.i]),
                                     !.i = @ + 1])
         ELSE IF ~st.has_plain THEN Returned(TRUE, chain, TRUE, st)
              ELSE Returned(TRUE, st.new_chain, FALSE, st)

Walk(chain, st) ==
    IF st.i <= Len(chain) /\ IsPlain(chain[st.i])
    THEN Walk(chain, [st EXCEPT !.has_plain = TRUE,
                                !.buffer = Append(@, chain[st.i]),
                                !.i = @ + 1])
    ELSE IF FlushNeedsCall(st.buffer)
         THEN Awaiting(chain, st)
         ELSE AfterFlush(chain, FlushNoCall(st), TRUE)

\* _replace_plain_text: the for loop from component k on
RECURSIVE ReplaceLoop(_, _, _, _, _)
ReplaceLoop(chain, polished_text, new_chain, replaced, k) ==
    IF k > Len(chain) THEN [new_chain |-> new_chain, replaced |-> replaced]
    ELSE IF IsPlain(chain[k])
         THEN IF ~replaced
              THEN ReplaceLoop(chain, polished_text,
                               Append(new_chain, Plain(polished_text)), TRUE, k + 1)
              ELSE ReplaceLoop(chain, polished_text, new_chain, replaced, k + 1)
         ELSE ReplaceLoop(chain, polished_text, Append(new_chain, chain[k]),
                          replaced, k + 1)

\* faulty variant: the message is inserted at the front whatever was replaced
ReplacePlainTextAlwaysPrepends(chain, polished_text) ==
    LET r == ReplaceLoop(chain, polished_text, <<>>, FALSE, 1)
    IN  <<Plain(polished_text)>> \o r.new_chain

ReplacePlainText(chain, polished_text) ==
    LET r == ReplaceLoop(chain, polished_text, <<>>, FALSE, 1)
    IN  IF ~r.replaced THEN <<Plain(polished_text)>> \o r.new_chain
        ELSE r.new_chain

\* ------------------------------------------------------------------- state
Frames == {1, 2}
Contexts == {1, 2}

\* the attributes _build_event_mark_key reads; frame f handles event f, and
\* both events belong to the same message of the same conversation
Events == [f \in Frames |-> [unified_msg_origin |-> "u1", message_id |-> "m1"]]

\* _build_event_mark_key
BuildEventMarkKey(f) ==
    IF Events[f].message_id # "" \/ Events[f].unified_msg_origin # ""
    THEN <<Events[f].unified_msg_origin, "::", Events[f].message_id>>
    ELSE <<"event", "::", "id">>

Keys == {BuildEventMarkKey(f) : f \in Frames}

NoMark == -1

VARIABLES
    config,         \* the plugin configuration, fixed during a run
    ctx_of,         \* the context (task) each frame runs in
    now,            \* time.monotonic()
    llm_marks,      \* self._llm_marks: key -> marked_at, NoMark when absent
    cleanup_task,   \* self._mark_cleanup_task: "none", "running" or "done"
    guard,          \* _POLISHING_GUARD, one value per context
    result,         \* event.get_result().chain of each frame's event
    pc,             \* where each frame is: "idle", "awaiting", "done", "raised"
    loc,            \* the frame's locals while it is suspended
    ret,            \* what _polish_chain_segments returned to the frame
    calls,          \* history: the provider.text_chat calls of each frame
    lookups,        \* history: the provider lookups of each frame
    orig,           \* history: the result chain each event started with
    term_pc,        \* terminate: "idle", or "awaiting" the cancelled cleanup task
    old_task,       \* the task terminate holds: "none", "cancelling", "cancelled"
    terminated,     \* history: how many calls of terminate have completed
    cleanup_errors, \* history: how many cleanup passes raised an error
    waited          \* tenths of a second each frame's pending call has waited

lifeVars == <<term_pc, old_task, terminated, cleanup_errors>>

vars == <<config, ctx_of, now, llm_marks, cleanup_task, guard, result, pc, loc,
          ret, calls, lookups, orig, term_pc, old_task, terminated,
          cleanup_errors, waited>>

NoLocals == [st |-> NewLocals, chain |-> <<>>, token |-> FALSE, provider |-> "none"]
NoRet == [returned |-> FALSE, success |-> FALSE, chain |-> <<>>, is_input |-> FALSE]

\* polish_timeout_seconds is counted in tenths of a second
ConfigsWith(timeouts) ==
    [failure_mode : FailureModeRaw, polish_provider : PolishProviderRaw,
     mark_retention_seconds : RetentionRaw, polish_timeout_seconds : timeouts]

Configs == ConfigsWith({2})

\* the state after __init__, for the given configurations, contexts of the
\* frames and result chains of the first event
InitFrom(cfgs, ctxs, chains1) ==
    /\ config \in cfgs
    /\ ctx_of = ctxs
    /\ now = 0
    /\ llm_marks = [k \in Keys |-> NoMark]
    /\ cleanup_task = "none"
    /\ guard = [c \in Contexts |-> FALSE]
    /\ result \in {[f \in Frames |-> IF f = 1 THEN c1 ELSE c2] :
                     c1 \in chains1, c2 \in Chains2}
    /\ pc = [f \in Frames |-> "idle"]
    /\ loc = [f \in Frames |-> NoLocals]
    /\ ret = [f \in Frames |-> NoRet]
    /\ calls = [f \in Frames |-> <<>>]
    /\ lookups = [f \in Frames |-> <<>>]
    /\ orig = result
    /\ term_pc = "idle"
    /\ old_task = "none"
    /\ terminated = 0
    /\ cleanup_errors = 0
    /\ waited = [f \in Frames |-> 0]

Init == InitFrom(Configs, [f \in Frames |-> 1], Chains(MaxLen))

\* ------------------------------------------------------------ marker store
\* faulty variant: the age of the entry is not looked at
HasValidLlmMarkIgnoresTtl(marks, key, t, ttl) ==
    marks[key] # NoMark

\* _has_valid_llm_mark: the value it returns
HasValidLlmMark(marks, key, t, ttl) ==
    /\ marks[key] # NoMark
    /\ ~(t - marks[key] > ttl)

\* faulty variant: an expired entry is left in the store
MarksAfterLookupKeeps(marks, key, t, ttl) == marks

\* faulty variant: the entry is removed by every lookup, valid or not
MarksAfterLookupConsumes(marks, key, t, ttl) == [marks EXCEPT ![key] = NoMark]

\* _has_valid_llm_mark: the store it leaves (an expired entry is popped)
MarksAfterLookup(marks, key, t, ttl) ==
    IF marks[key] # NoMark /\ t - marks[key] > ttl
    THEN [marks EXCEPT ![key] = NoMark]
    ELSE marks

\* _cleanup_expired_marks
CleanupExpiredMarks(marks, t, ttl) ==
    [k \in DOMAIN marks |->
        IF marks[k] # NoMark /\ t - marks[k] > ttl THEN NoMark ELSE marks[k]]

\* _ensure_mark_cleanup_task: a task that is running is kept, else one is created
EnsureMarkCleanupTask(task) ==
    IF task = "running" THEN task ELSE "running"

\* ------------------------------------------------------- provider resolver
Lookup(api, found) == [api |-> api, found |-> found]

\* faulty variant: a configured id that does not resolve yields no provider
ResolvePolishProviderNoFallback(cfg, by_id_found, using_found) ==
    IF cfg.polish_provider # ""
    THEN [provider |-> IF by_id_found THEN "by_id" ELSE "none",
          lookups |-> <<Lookup("get_provider_by_id", by_id_found)>>]
    ELSE [provider |-> IF using_found THEN "using" ELSE "none",
          lookups |-> <<Lookup("get_using_provider", using_found)>>]

\* _resolve_polish_provider; by_id_found and using_found are the host's answers
ResolvePolishProvider(cfg, by_id_found, using_found) ==
    IF cfg.polish_provider # "" /\ by_id_found
    THEN [provider |-> "by_id", lookups |-> <<Lookup("get_provider_by_id", TRUE)>>]
    ELSE [provider |-> IF using_found THEN "using" ELSE "none",
          lookups |-> (IF cfg.polish_provider # ""
                       THEN <<Lookup("get_provider_by_id", FALSE)>> ELSE <<>>)
                      \o <<Lookup("get_using_provider", using_found)>>]

\* ------------------------------------------------------------ pre-send hook
\* faulty variant: the guard is one flag shared by all contexts
GuardBlocksGlobal(f) == \E c \in Contexts : guard[c]

\* faulty variant: the hook does not look at the guard
GuardBlocksNever(f) == FALSE

\* line 81: the hook returns at once when the context's guard is set
GuardBlocks(f) == guard[ctx_of[f]]

\* _POLISHING_GUARD.set(True); the token is the value it replaces
GuardSet(g, c) == [g EXCEPT ![c] = TRUE]

\* faulty variant: the guard is never reset
GuardResetForgets(g, c, token) == g

\* _POLISHING_GUARD.reset(token) in the finally clause
GuardReset(g, c, token) == [g EXCEPT ![c] = token]

\* faulty variant: a failed rewrite leaves the chain alone in either mode
AfterRewriteKeepsOnFailure(chain_now, success, new_chain, cfg) ==
    IF ~success THEN chain_now
    ELSE IF new_chain # <<>> THEN new_chain ELSE chain_now

\* lines 105-111: the result chain after _polish_chain_segments has returned
AfterRewrite(chain_now, success, new_chain, cfg) ==
    IF ~success
    THEN IF GetFailureMode(cfg) = "send_error"
         THEN ReplacePlainText(chain_now, GetFailureMessage)
         ELSE chain_now
    ELSE IF new_chain # <<>> THEN new_chain ELSE chain_now

\* frames of one context nest: a later frame starts once the earlier ones have
\* started, and a frame resumes only while no frame above it is suspended
CanInvoke(f) ==
    \A g \in Frames : (g < f /\ ctx_of[g] = ctx_of[f]) => pc[g] # "idle"
CanResume(f) ==
    \A g \in Frames : (g > f /\ ctx_of[g] = ctx_of[f]) => pc[g] # "awaiting"

\* the hook from line 99 on, w being what the rewriter did up to its next
\* suspension point or its return; cs is the frame's call history so far
Continue(f, w, token, provider, cs) ==
    IF w.kind = "await"
    THEN /\ pc' = [pc EXCEPT ![f] = "awaiting"]
         /\ loc' = [loc EXCEPT ![f] = [st |-> w.st, chain |-> w.chain,
                                       token |-> token, provider |-> provider]]
         /\ guard' = GuardSet(guard, ctx_of[f])
         /\ calls' = [calls EXCEPT ![f] =
                        Append(cs, [text |-> w.text, provider |-> provider,
                                    polished |-> <<"pending">>, waited |-> 0])]
         /\ UNCHANGED <<result, ret>>
    ELSE /\ pc' = [pc EXCEPT ![f] = "done"]
         /\ loc' = [loc EXCEPT ![f] = NoLocals]
         /\ guard' = GuardReset(GuardSet(guard, ctx_of[f]), ctx_of[f], token)
         /\ calls' = [calls EXCEPT ![f] = cs]
         /\ ret' = [ret EXCEPT ![f] = [returned |-> TRUE, success |-> w.success,
                                       chain |-> w.chain, is_input |-> w.is_input]]
         /\ result' = [result EXCEPT ![f] =
                         AfterRewrite(result[f], w.success, w.chain, config)]

Return(f) ==
    /\ pc' = [pc EXCEPT ![f] = "done"]
    /\ UNCHANGED <<guard, result, loc, ret, calls>>

\* force_polish_before_send up to its first suspension point
ForcePolishBeforeSend(f) ==
    /\ pc[f] = "idle"
    /\ CanInvoke(f)
    /\ UNCHANGED <<config, ctx_of, now, orig, lifeVars, waited>>
    /\ IF GuardBlocks(f)
       THEN Return(f) /\ UNCHANGED <<cleanup_task, llm_marks, lookups>>
       ELSE LET key == BuildEventMarkKey(f)
                ttl == GetMarkRetentionSeconds(config)
            IN  /\ cleanup_task' = EnsureMarkCleanupTask(cleanup_task)
                /\ llm_marks' = MarksAfterLookup(llm_marks, key, now, ttl)
                /\ IF ~HasValidLlmMark(llm_marks, key, now, ttl)
                   THEN Return(f) /\ UNCHANGED lookups
                   ELSE IF result[f] = <<>>
                   THEN Return(f) /\ UNCHANGED lookups
                   ELSE \E by_id_found, using_found \in BOOLEAN :
                          LET r == ResolvePolishProvider(config, by_id_found, using_found)
                          IN  /\ lookups' = [lookups EXCEPT ![f] = r.lookups]
                              /\ IF r.provider = "none"
                                 THEN Return(f)
                                 ELSE Continue(f, Walk(result[f], NewLocals),
                                               guard[ctx_of[f]], r.provider, calls[f])

\* history: the last call ended with this result after waiting w tenths
SetLast(cs, polished, w) ==
    [cs EXCEPT ![Len(cs)].polished = polished, ![Len(cs)].waited = w]

\* the awaited provider.text_chat call of frame f ends with outcome o and the
\* frame runs on to its next suspension point
ProviderReturn(f, o) ==
    /\ pc[f] = "awaiting"
    /\ CanResume(f)
    /\ UNCHANGED <<config, ctx_of, now, orig, cleanup_task, llm_marks, lookups,
                   lifeVars>>
    /\ waited' = [waited EXCEPT ![f] = 0]
    /\ IF PolishTextRaises(o)
       THEN /\ pc' = [pc EXCEPT ![f] = "raised"]
            /\ loc' = [loc EXCEPT ![f] = NoLocals]
            /\ guard' = GuardReset(guard, ctx_of[f], loc[f].token)
            /\ calls' = [calls EXCEPT ![f] = SetLast(@, <<"cancelled">>, waited[f])]
            /\ UNCHANGED <<result, ret>>
       ELSE LET polished == PolishTextResult(o)
                fl == FlushResume(loc[f].st, polished, GetFailureMode(config))
            IN  Continue(f, AfterFlush(loc[f].chain, fl.st, fl.ok), loc[f].token,
                         loc[f].provider,
                         SetLast(calls[f], IF o.kind = "cancelled"
                                           THEN <<"cancelled">> ELSE polished,
                                 waited[f]))

\* mark_ai_reply_flow for the event of frame f, before its reply is sent
MarkAiReplyFlow(f) ==
    /\ pc[f] = "idle"
    /\ cleanup_task' = EnsureMarkCleanupTask(cleanup_task)
    /\ llm_marks' = [llm_marks EXCEPT ![BuildEventMarkKey(f)] = now]
    /\ UNCHANGED <<config, ctx_of, now, guard, result, pc, loc, ret, calls,
                   lookups, orig, lifeVars, waited>>

\* one pass of _mark_cleanup_loop: the sleep is over, _cleanup_expired_marks runs
CleanupPass ==
    /\ cleanup_task = "running"
    /\ llm_marks' = CleanupExpiredMarks(llm_marks, now, GetMarkRetentionSeconds(config))
    /\ UNCHANGED <<config, ctx_of, now, cleanup_task, guard, result, pc, loc, ret,
                   calls, lookups, orig, lifeVars, waited>>

\* time passes
Tick ==
    /\ now + TickSeconds <= MaxNow
    /\ now' = now + TickSeconds
    /\ UNCHANGED <<config, ctx_of, llm_marks, cleanup_task, guard, result, pc, loc,
                   ret, calls, lookups, orig, lifeVars, waited>>

\* the hooks, the rewrite calls, the cleanup passes and the clock, with no
\* terminate and no error in a cleanup pass
Next ==
    \/ \E f \in Frames : ForcePolishBeforeSend(f)
    \/ \E f \in Frames : \E o \in Outcomes : ProviderReturn(f, o)
    \/ \E f \in Frames : MarkAiReplyFlow(f)
    \/ CleanupPass
    \/ Tick

Spec == Init /\ [][Next]_vars

\* two messages in flight, each frame in a task (context) of its own
ChainsTasks == Chains(MaxLen - 1)
InitTasks == InitFrom(Configs, [f \in Frames |-> f], ChainsTasks)
SpecTasks == InitTasks /\ [][Next]_vars

\* -------------------------------------------------------------- the timeout
TimeoutFloor == 1    \* max(timeout, 0.1), in tenths of a second
TimeoutRaw == {0, 2}

\* _get_timeout_seconds, in tenths of a second
GetTimeoutSeconds(cfg) ==
    IF cfg.polish_timeout_seconds < TimeoutFloor THEN TimeoutFloor
    ELSE cfg.polish_timeout_seconds

\* faulty variant: the call is awaited without a timeout
TimedOutNever(w, timeout) == FALSE

\* asyncio.wait_for: the timeout has run out after w tenths of a second
TimedOut(w, timeout) == w >= timeout

Answers == {o \in Outcomes : o.kind # "timeout"}

\* a tenth of a second passes while frame f awaits provider.text_chat
Elapse(f) ==
    /\ pc[f] = "awaiting"
    /\ ~TimedOut(waited[f], GetTimeoutSeconds(config))
    /\ waited' = [waited EXCEPT ![f] = @ + 1]
    /\ UNCHANGED <<config, ctx_of, now, llm_marks, cleanup_task, guard, result, pc,
                   loc, ret, calls, lookups, orig, lifeVars>>

\* provider.text_chat ends, or the task is cancelled, before the timeout
ProviderAnswers(f, o) ==
    /\ ~TimedOut(waited[f], GetTimeoutSeconds(config))
    /\ ProviderReturn(f, o)

\* asyncio.wait_for cancels the pending provider.text_chat, which is taken to
\* end on cancellation, and raises TimeoutError; the call's completion is lost
TimeoutFires(f) ==
    /\ TimedOut(waited[f], GetTimeoutSeconds(config))
    /\ ProviderReturn(f, [kind |-> "timeout", completion_text |-> <<>>])

ChainsTimed == {<<Plain(<<"a">>), Opaque(1), Plain(<<"a">>)>>}
InitTimed == InitFrom(ConfigsWith(TimeoutRaw), [f \in Frames |-> f], ChainsTimed)

\* the hooks and the rewrite calls under their timeout
NextTimed ==
    \/ \E f \in Frames : ForcePolishBeforeSend(f)
    \/ \E f \in Frames : MarkAiReplyFlow(f)
    \/ \E f \in Frames : Elapse(f)
    \/ \E f \in Frames : \E o \in Answers : ProviderAnswers(f, o)
    \/ \E f \in Frames : TimeoutFires(f)

\* time passes for every pending call and a timeout that has run out fires;
\* the provider owes no answer
FairTimed ==
    /\ InitTimed /\ [][NextTimed]_vars
    /\ \A f \in Frames : WF_vars(Elapse(f)) /\ WF_vars(TimeoutFires(f))

\* ---------------------------------------------------------------- lifecycle
\* a pass of _mark_cleanup_loop raises an exception other than CancelledError:
\* the except clause around the while loop logs it and the coroutine returns,
\* so the task is done; nothing is popped before the error
CleanupPassFails ==
    /\ cleanup_task = "running"
    /\ cleanup_errors < MaxErrors
    /\ cleanup_task' = "done"
    /\ cleanup_errors' = cleanup_errors + 1
    /\ UNCHANGED <<config, ctx_of, now, llm_marks, guard, result, pc, loc, ret,
                   calls, lookups, orig, term_pc, old_task, terminated, waited>>

ClearedMarks == [k \in Keys |-> NoMark]

\* terminate up to its await of the cancelled task, or to its end when there
\* is no task or the task is done
TerminateStart ==
    /\ term_pc = "idle"
    /\ terminated < MaxTerminate
    /\ cleanup_task' = "none"
    /\ IF cleanup_task = "running"
       THEN /\ old_task' = "cancelling"
            /\ term_pc' = "awaiting"
            /\ UNCHANGED <<llm_marks, terminated>>
       ELSE /\ llm_marks' = ClearedMarks
            /\ terminated' = terminated + 1
            /\ UNCHANGED <<old_task, term_pc>>
    /\ UNCHANGED <<config, ctx_of, now, guard, result, pc, loc, ret, calls,
                   lookups, orig, cleanup_errors, waited>>

\* the cancelled cleanup task gets CancelledError at its sleep and re-raises it
CleanupCancelled ==
    /\ old_task = "cancelling"
    /\ old_task' = "cancelled"
    /\ UNCHANGED <<config, ctx_of, now, llm_marks, cleanup_task, guard, result, pc,
                   loc, ret, calls, lookups, orig, term_pc, terminated,
                   cleanup_errors, waited>>

\* terminate from its await on: CancelledError is swallowed, the store is cleared
TerminateResume ==
    /\ term_pc = "awaiting"
    /\ old_task = "cancelled"
    /\ llm_marks' = ClearedMarks
    /\ term_pc' = "idle"
    /\ old_task' = "none"
    /\ terminated' = terminated + 1
    /\ UNCHANGED <<config, ctx_of, now, cleanup_task, guard, result, pc, loc, ret,
                   calls, lookups, orig, cleanup_errors, waited>>

InitLife == InitFrom(Configs, [f \in Frames |-> 1], Chains2)

\* the hooks, the rewrite calls, the cleanup task with its errors, the clock
\* and terminate
NextLife ==
    \/ \E f \in Frames : ForcePolishBeforeSend(f)
    \/ \E f \in Frames : \E o \in Outcomes : ProviderReturn(f, o)
    \/ \E f \in Frames : MarkAiReplyFlow(f)
    \/ CleanupPass
    \/ CleanupPassFails
    \/ Tick
    \/ TerminateStart
    \/ CleanupCancelled
    \/ TerminateResume

SpecLife == InitLife /\ [][NextLife]_vars

\* the event loop keeps running: the clock advances, a running cleanup task
\* wakes from its sleep and runs its pass, a cancelled task ends, and a
\* terminate whose awaited task has ended resumes; no hook is ever owed
FairLife ==
    /\ SpecLife
    /\ WF_vars(Tick)
    /\ WF_vars(CleanupPass)
    /\ WF_vars(CleanupCancelled)
    /\ WF_vars(TerminateResume)

\* ------------------------------------------------- vocabulary of the claims
IsOpaqueSeg(comp) == comp.kind # "Plain"
NonText(chain) == SelectSeq(chain, IsOpaqueSeg)
HasText(chain) == \E k \in 1..Len(chain) : chain[k].kind = "Plain"

\* the chain cut into maximal runs of Plain segments and single other segments
RECURSIVE SplitRuns(_)
SplitRuns(chain) ==
    IF chain = <<>> THEN <<>>
    ELSE LET h == Head(chain)
             rest == SplitRuns(Tail(chain))
         IN  IF h.kind = "Plain" /\ rest # <<>> /\ rest[1][1].kind = "Plain"
             THEN <<(<<h>> \o rest[1])>> \o Tail(rest)
             ELSE <<(<<h>>)>> \o rest

IsBlankRun(run) ==
    \A k \in 1..Len(run) : \A j \in 1..Len(run[k].text) : run[k].text[j] \in Whitespace
IsRewritable(run) == run[1].kind = "Plain" /\ ~IsBlankRun(run)
RewritableRuns(chain) == SelectSeq(SplitRuns(chain), IsRewritable)

\* the chain whose k-th rewritable run is replaced by one Plain(outs[k]), or
\* kept as it is when outs[k] is None or there is no outs[k]
RECURSIVE Assemble(_, _)
Assemble(runs, outs) ==
    IF runs = <<>> THEN <<>>
    ELSE IF IsRewritable(Head(runs))
         THEN (IF outs = <<>> \/ Head(outs) = None
               THEN Head(runs) ELSE <<Plain(Head(outs))>>)
              \o Assemble(Tail(runs), IF outs = <<>> THEN <<>> ELSE Tail(outs))
         ELSE Head(runs) \o Assemble(Tail(runs), outs)

CallTexts(f) == [k \in 1..Len(calls[f]) |-> calls[f][k].text]
CallResults(f) == [k \in 1..Len(calls[f]) |-> calls[f][k].polished]
CallOk(c) == c.polished \notin {None, <<"pending">>, <<"cancelled">>}
CallFailed(c) == c.polished = None
AllCallsOk(f) == \A k \in 1..Len(calls[f]) : CallOk(calls[f][k])
AllCallsFailed(f) == \A k \in 1..Len(calls[f]) : CallFailed(calls[f][k])
SomeCallFailed(f) == \E k \in 1..Len(calls[f]) : CallFailed(calls[f][k])
Mode == IF config.failure_mode = "send_error" THEN "send_error" ELSE "fallback_original"
Rewrote(f) == pc[f] = "done" /\ ret[f].returned

\* ------------------------------------------------------------------ claims
\* C1: whatever the outcomes of the rewrite calls and the failure mode, the
\* chain returned by the rewriter and the event's result chain hold exactly
\* the non-Text segments of the input chain, in the same order.
C1_NonTextPreserved ==
    \A f \in Frames :
        /\ NonText(result[f]) = NonText(orig[f])
        /\ ret[f].returned => NonText(ret[f].chain) = NonText(orig[f])

C1_Witness ==
    \E f \in Frames :
        /\ Rewrote(f) /\ ~ret[f].success
        /\ Len(calls[f]) = 2
        /\ Len(NonText(orig[f])) >= 1
        /\ result[f] # orig[f]

\* C2: when every rewrite call succeeds, there is exactly one call per maximal
\* run of contiguous Text segments with non-blank joined text, in order, each
\* on the run's newline-joined, trimmed text, and the output chain holds one
\* Text segment with the rewritten text in place of each such run; runs
\* separated by a non-Text segment are never merged.
C2_OneCallPerRun ==
    \A f \in Frames :
        (Rewrote(f) /\ AllCallsOk(f)) =>
            LET runs == RewritableRuns(orig[f])
            IN  /\ ret[f].success
                /\ Len(calls[f]) = Len(runs)
                /\ \A k \in 1..Len(runs) :
                       calls[f][k].text = Strip(JoinNewline(runs[k]))
                /\ ret[f].chain = Assemble(SplitRuns(orig[f]), CallResults(f))
                /\ result[f] = ret[f].chain

C2_Witness ==
    \E f \in Frames :
        /\ Rewrote(f) /\ AllCallsOk(f)
        /\ Len(calls[f]) = 2
        /\ calls[f][1].polished # calls[f][2].polished
        /\ Len(result[f]) = 3

\* C3: for a chain without a Text segment the rewriter returns (true, the
\* original chain) and no rewrite call is made.
C3_NoTextIdentity ==
    \A f \in Frames :
        ~HasText(orig[f]) =>
            /\ calls[f] = <<>>
            /\ pc[f] # "awaiting"
            /\ result[f] = orig[f]
            /\ ret[f].returned =>
                   ret[f].success /\ ret[f].is_input /\ ret[f].chain = orig[f]

C3_Witness ==
    \E f \in Frames :
        Rewrote(f) /\ ~HasText(orig[f]) /\ Len(orig[f]) >= 2

\* C4: in pass-through-original mode, when every rewrite call made fails, the
\* rewriter reports success and its output chain, and the result chain after
\* the hook, equal the input chain segment for segment.
C4_PassThroughIdentity ==
    \A f \in Frames :
        (Rewrote(f) /\ Mode = "fallback_original" /\ calls[f] # <<>>
           /\ AllCallsFailed(f)) =>
            /\ ret[f].success
            /\ ret[f].chain = orig[f]
            /\ result[f] = orig[f]

C4_Witness ==
    \E f \in Frames :
        /\ Rewrote(f) /\ Mode = "fallback_original"
        /\ calls[f] # <<>> /\ AllCallsFailed(f)
        /\ Len(orig[f]) = 3
        /\ orig[f][1] = Plain(<<" ">>) /\ orig[f][2] = Plain(<<"a">>)

\* the chains of up to MaxLen segments that hold no Text segment
OpaqueChains == SeqsUpTo({Opaque(n) : n \in OpaqueIds}, MaxLen)
FirstTextIndex(chain) ==
    CHOOSE k \in 1..Len(chain) :
        chain[k].kind = "Plain" /\ \A j \in 1..(k - 1) : chain[j].kind # "Plain"
TextIndexes(chain) == {k \in 1..Len(chain) : chain[k].kind = "Plain"}

\* C5: in send-fixed-error mode, when a rewrite call fails the rewriter
\* reports failure and the hook replaces the result chain by the substituted
\* chain: one Text segment, the fixed failure message, at the index of the
\* first Text segment of the original chain, no other Text segment, every
\* non-Text segment kept in order; on a chain without Text the helper
\* prepends the fixed-message segment.
C5_SendErrorSubstitution ==
    /\ \A f \in Frames :
           (Rewrote(f) /\ Mode = "send_error" /\ SomeCallFailed(f)) =>
               /\ ~ret[f].success
               /\ TextIndexes(result[f]) = {FirstTextIndex(orig[f])}
               /\ result[f][FirstTextIndex(orig[f])] = Plain(GetFailureMessage)
               /\ NonText(result[f]) = NonText(orig[f])
    /\ \A c \in OpaqueChains :
           ReplacePlainText(c, GetFailureMessage) = <<Plain(GetFailureMessage)>> \o c

C5_Witness ==
    \E f \in Frames :
        /\ Rewrote(f) /\ Mode = "send_error" /\ SomeCallFailed(f)
        /\ Cardinality(TextIndexes(orig[f])) = 2
        /\ FirstTextIndex(orig[f]) = 2

\* C6: in send-fixed-error mode the first failing run aborts the rewrite: the
\* failed call is the last call made, the chain returned with success=false is
\* the input chain itself, unchanged, and no text rewritten for an earlier run
\* is in the chain that is sent.
C6_FirstFailureAborts ==
    \A f \in Frames :
        (Rewrote(f) /\ ~ret[f].success) =>
            /\ Mode = "send_error"
            /\ calls[f] # <<>>
            /\ CallFailed(calls[f][Len(calls[f])])
            /\ \A k \in 1..(Len(calls[f]) - 1) : CallOk(calls[f][k])
            /\ ret[f].is_input /\ ret[f].chain = orig[f]
            /\ \A k \in 1..Len(result[f]) : \A j \in 1..Len(calls[f]) :
                   result[f][k].kind = "Plain" => result[f][k].text # calls[f][j].polished

C6_Witness ==
    \E f \in Frames :
        /\ Rewrote(f) /\ ~ret[f].success
        /\ Len(calls[f]) = 1
        /\ Len(RewritableRuns(orig[f])) = 2

\* C7, as the spec states it: after a hook in which a rewrite call failed the
\* result chain is the original chain (pass-through mode) or its fixed-message
\* substitution (send-fixed-error mode), never a mix of rewritten and original
\* runs, and no run is sent twice.
C7_AllOrNothing ==
    \A f \in Frames :
        (Rewrote(f) /\ SomeCallFailed(f)) =>
            /\ result[f] = IF Mode = "send_error"
                           THEN ReplacePlainText(orig[f], GetFailureMessage)
                           ELSE orig[f]
            /\ Len(calls[f]) <= Len(RewritableRuns(orig[f]))

\* C7, amended: after a hook in which a rewrite call failed, in
\* send-fixed-error mode the result chain is the fixed-message substitution of
\* the original chain; in pass-through mode every run whose call failed keeps
\* its original segments and every run whose call succeeded is replaced by its
\* rewritten text, so the result is the original chain when no call
\* succeeded.  The k-th call carries the text of the k-th rewritable run: no
\* run is sent twice.
C7_FailureOutcome ==
    \A f \in Frames :
        (Rewrote(f) /\ SomeCallFailed(f)) =>
            LET runs == RewritableRuns(orig[f])
            IN  /\ Mode = "send_error" =>
                       result[f] = ReplacePlainText(orig[f], GetFailureMessage)
                /\ Mode = "fallback_original" =>
                       /\ result[f] = Assemble(SplitRuns(orig[f]), CallResults(f))
                       /\ AllCallsFailed(f) => result[f] = orig[f]
                /\ Len(calls[f]) <= Len(runs)
                /\ \A k \in 1..Len(calls[f]) :
                       calls[f][k].text = Strip(JoinNewline(runs[k]))

C7_Witness ==
    \E f \in Frames :
        /\ Rewrote(f) /\ Mode = "fallback_original"
        /\ Len(calls[f]) = 2
        /\ CallOk(calls[f][1]) /\ CallFailed(calls[f][2])
        /\ result[f] # orig[f]

\* an entry for the event's key exists and is no older than the retention time
MarkerValid(f) ==
    LET key == <<Events[f].unified_msg_origin, "::", Events[f].message_id>>
        ttl == IF config.mark_retention_seconds < 10 THEN 10
               ELSE config.mark_retention_seconds
    IN  llm_marks[key] >= 0 /\ now - llm_marks[key] <= ttl

Invoked(f) == pc[f] = "idle" /\ pc'[f] # "idle"

\* C8: a pre-send hook on an event without a valid marker looks up no
\* provider, makes no rewrite call, leaves the reentrancy flag as it is and
\* leaves the result chain unchanged, whatever the chain holds.
C8_UnmarkedPassesThrough ==
    [][\A f \in Frames :
          (Invoked(f) /\ ~MarkerValid(f)) =>
              /\ pc'[f] = "done"
              /\ lookups' = lookups /\ lookups'[f] = <<>>
              /\ calls' = calls /\ calls'[f] = <<>>
              /\ guard' = guard
              /\ result' = result /\ ret' = ret]_vars

C8_Witness ==
    /\ pc[1] = "done" /\ lookups[1] = <<>>
    /\ HasText(orig[1]) /\ Len(orig[1]) = 3
    /\ ~guard[ctx_of[1]]
    /\ now > 0 /\ cleanup_task = "running"
    /\ \A k \in Keys : llm_marks[k] = NoMark

\* C9: the reentrancy flag of a context is set exactly while a frame of that
\* context is suspended in its rewrite call: it is set before the first call
\* and cleared on every exit (success, failure, cancellation), so a later
\* hook of the same context on a marked event is not skipped.
C9_GuardOnlyDuringRewrite ==
    /\ [](\A c \in Contexts :
             guard[c] <=> \E f \in Frames : ctx_of[f] = c /\ pc[f] = "awaiting")
    /\ [][\A f \in Frames :
             (/\ Invoked(f) /\ MarkerValid(f) /\ result[f] # <<>>
              /\ \A g \in Frames : ctx_of[g] = ctx_of[f] => pc[g] # "awaiting")
                => lookups'[f] # <<>>]_vars

C9_Witness ==
    /\ pc[1] = "done" /\ SomeCallFailed(1)
    /\ pc[2] = "done" /\ calls[2] # <<>>
    /\ ctx_of[2] = ctx_of[1]
    /\ ~guard[ctx_of[1]]

\* C10: a pre-send hook invoked while the context's reentrancy flag is set is
\* a no-op, also for an event with a valid marker: no rewrite call, no
\* provider lookup, the result chains, the marker store and the cleanup task
\* unchanged.
C10_ReentrantHookIsNoOp ==
    [][\A f \in Frames :
          (Invoked(f) /\ guard[ctx_of[f]]) =>
              /\ pc'[f] = "done"
              /\ calls' = calls /\ lookups' = lookups
              /\ result' = result /\ ret' = ret
              /\ llm_marks' = llm_marks
              /\ cleanup_task' = cleanup_task
              /\ guard' = guard]_vars

C10_Witness ==
    /\ pc[1] = "awaiting" /\ pc[2] = "done"
    /\ guard[ctx_of[2]]
    /\ MarkerValid(2)
    /\ HasText(result[2]) /\ result[2] = orig[2]
    /\ calls[2] = <<>>

\* C11: the reentrancy flag is per task.  A hook on a marked event that runs
\* while a frame of another context is suspended in its rewrite call with its
\* flag set is not skipped; each context's flag is set exactly while a frame
\* of that context is suspended, so when all frames have finished, in
\* whatever order, every flag is cleared.
C11_GuardPerTask ==
    /\ [][\A f \in Frames :
             (/\ Invoked(f) /\ MarkerValid(f) /\ result[f] # <<>>
              /\ \E g \in Frames :
                     ctx_of[g] # ctx_of[f] /\ pc[g] = "awaiting" /\ guard[ctx_of[g]])
                => (lookups'[f] # <<>> /\ ~guard[ctx_of[f]])]_vars
    /\ [](\A f \in Frames :
             (pc[f] = "awaiting" => guard[ctx_of[f]])
             /\ (pc[f] \in {"done", "raised"} => ~guard[ctx_of[f]]))

C11_Witness ==
    /\ ctx_of[1] # ctx_of[2]
    /\ pc[1] = "awaiting" /\ pc[2] = "awaiting"
    /\ guard[ctx_of[1]] /\ guard[ctx_of[2]]
    /\ Len(calls[1]) = 1 /\ Len(calls[2]) = 1

\* C12: a cancellation delivered while a frame awaits its rewrite call is not
\* turned into a rewrite failure: it propagates out of the hook, the cancelled
\* call is the frame's last call, the rewriter returns nothing, the result
\* chain stays the original in either failure mode, and the reentrancy flag
\* is cleared.
C12_CancellationPropagates ==
    \A f \in Frames :
        (\E k \in 1..Len(calls[f]) : calls[f][k].polished = <<"cancelled">>) =>
            /\ pc[f] = "raised"
            /\ calls[f][Len(calls[f])].polished = <<"cancelled">>
            /\ ~ret[f].returned
            /\ result[f] = orig[f]
            /\ (\A g \in Frames : ctx_of[g] = ctx_of[f] => pc[g] # "awaiting")
                   => ~guard[ctx_of[f]]

C12_Witness ==
    \E f \in Frames :
        /\ pc[f] = "raised"
        /\ Mode = "send_error"
        /\ Len(calls[f]) = 1
        /\ Len(RewritableRuns(orig[f])) = 2
        /\ ~guard[ctx_of[f]]

ClaimKey(f) == <<Events[f].unified_msg_origin, "::", Events[f].message_id>>
ClaimTtl == IF config.mark_retention_seconds < 10 THEN 10
            ELSE config.mark_retention_seconds
Marked(f) ==
    /\ UNCHANGED pc
    /\ llm_marks'[ClaimKey(f)] # llm_marks[ClaimKey(f)]
    /\ llm_marks'[ClaimKey(f)] # NoMark

\* C13: marking a key stores the current monotonic time under it, and the
\* key is valid right after; the pre-send hook finds the marker valid exactly
\* when an entry exists with now - created_at <= TTL; a lookup that finds the
\* entry older than TTL removes it in the same call, any other lookup leaves
\* the store as it is.
C13_MarkerValidity ==
    [][\A f \in Frames :
          /\ Marked(f) =>
                 /\ llm_marks'[ClaimKey(f)] = now
                 /\ now' - llm_marks'[ClaimKey(f)] <= ClaimTtl
          /\ (Invoked(f) /\ ~guard[ctx_of[f]]) =>
                 /\ result[f] # <<>> => (lookups'[f] # <<>> <=> MarkerValid(f))
                 /\ llm_marks' =
                      IF llm_marks[ClaimKey(f)] >= 0
                           /\ now - llm_marks[ClaimKey(f)] > ClaimTtl
                      THEN [llm_marks EXCEPT ![ClaimKey(f)] = NoMark]
                      ELSE llm_marks]_vars

C13_Witness ==
    /\ pc[1] = "done" /\ lookups[1] = <<>> /\ HasText(orig[1])
    /\ pc[2] = "awaiting"
    /\ now > 0 /\ llm_marks[ClaimKey(2)] = now

\* C17: a run of contiguous Text segments whose joined text is empty or only
\* whitespace causes no rewrite call (every call carries text with a
\* non-whitespace character, and there are never more calls than non-blank
\* runs); when the rewriter returns success the run's segments stand in the
\* output unchanged at the run's position, and the runs after it have been
\* handled: one call per non-blank run of the whole chain.
C17_BlankRunPassedThrough ==
    \A f \in Frames :
        /\ \A k \in 1..Len(calls[f]) :
               \E j \in 1..Len(calls[f][k].text) :
                   calls[f][k].text[j] \notin Whitespace
        /\ Len(calls[f]) <= Len(RewritableRuns(orig[f]))
        /\ (ret[f].returned /\ ret[f].success) =>
               /\ Len(calls[f]) = Len(RewritableRuns(orig[f]))
               /\ ret[f].chain = Assemble(SplitRuns(orig[f]), CallResults(f))

C17_Witness ==
    \E f \in Frames :
        /\ orig[f] = <<Plain(<<" ">>), Opaque(1), Plain(<<"a">>)>>
        /\ Rewrote(f) /\ ret[f].success
        /\ Len(calls[f]) = 1 /\ CallOk(calls[f][1])
        /\ result[f][1] = Plain(<<" ">>) /\ Len(result[f]) = 3
        /\ result[f][3] # orig[f][3]

Resolved(f) ==
    LET L == lookups[f]
    IN  IF L[1].api = "get_provider_by_id" /\ L[1].found THEN "by_id"
        ELSE IF L[Len(L)].found THEN "using" ELSE "none"

\* C18: the provider is looked up by the configured polish_provider id when
\* that id is not empty, and the provider so found is used; when the id is
\* empty or does not resolve the session's default provider is looked up and
\* used; every rewrite call of the hook goes to the provider so chosen.  When
\* no provider resolves the hook returns in that step without a rewrite call,
\* without touching the reentrancy flag and without raising, and the result
\* chain is the one it was.
C18_ProviderResolution ==
    /\ [](\A f \in Frames : lookups[f] # <<>> =>
            LET L == lookups[f]
            IN  /\ IF config.polish_provider # ""
                   THEN /\ L[1].api = "get_provider_by_id"
                        /\ IF L[1].found THEN Len(L) = 1
                           ELSE Len(L) = 2 /\ L[2].api = "get_using_provider"
                   ELSE Len(L) = 1 /\ L[1].api = "get_using_provider"
                /\ \A k \in 1..Len(calls[f]) : calls[f][k].provider = Resolved(f)
                /\ Resolved(f) = "none" =>
                       /\ calls[f] = <<>> /\ pc[f] = "done"
                       /\ ~ret[f].returned /\ result[f] = orig[f])
    /\ [][\A f \in Frames :
            (Invoked(f) /\ lookups'[f] # <<>> /\ ~lookups'[f][Len(lookups'[f])].found)
                => /\ pc'[f] = "done"
                   /\ UNCHANGED <<guard, result, calls, ret>>]_vars

C18_Witness ==
    /\ config.polish_provider # ""
    /\ pc[1] = "done" /\ Len(lookups[1]) = 2
    /\ ~lookups[1][1].found /\ ~lookups[1][2].found
    /\ HasText(orig[1]) /\ result[1] = orig[1] /\ calls[1] = <<>>
    /\ pc[2] = "awaiting" /\ Len(lookups[2]) = 2 /\ lookups[2][2].found
    /\ calls[2][1].provider = "using"

\* C14: an exception other than cancellation raised inside a cleanup pass is
\* logged and the cleanup loop keeps running: the cleanup task is still running
\* after the failed pass, with no hook needed to start it again.
C14_LoopSurvivesError ==
    [][cleanup_errors' > cleanup_errors => cleanup_task' = "running"]_vars

\* C15: whenever a call of terminate completes the marker store is empty and
\* no cleanup task of the plugin is running or still being cancelled, also
\* when a hook ran while terminate was suspended at its await.
C15_TerminateLeavesNothing ==
    [][terminated' > terminated =>
          /\ llm_marks' = ClearedMarks
          /\ cleanup_task' # "running"
          /\ old_task' # "cancelling"]_vars

\* C19: an entry of the marker store with now - created_at <= TTL is changed
\* only by a step that completes terminate, which removes it, or by a new
\* mark of its key, which sets it to the current time and runs no hook code
\* else; the pre-send hook (skipping, polishing or failing), the resumption
\* of a rewrite call and a cleanup pass leave it as it is.  So a marker is not
\* used up: every pre-send hook whose key has such an entry, with the
\* reentrancy flag unset and a non-empty result chain, goes on to resolve a
\* provider, whether or not an earlier hook was polished on the same entry.
C19_LiveMarkerKept ==
    [][/\ \A k \in Keys :
            (/\ llm_marks[k] >= 0
             /\ now - llm_marks[k] <= ClaimTtl
             /\ llm_marks'[k] # llm_marks[k])
                => \/ terminated' > terminated /\ llm_marks'[k] = NoMark
                   \/ llm_marks'[k] = now /\ UNCHANGED <<pc, calls, lookups, result, ret>>
       /\ \A f \in Frames :
            (/\ Invoked(f) /\ ~guard[ctx_of[f]] /\ result[f] # <<>>
             /\ llm_marks[ClaimKey(f)] >= 0
             /\ now - llm_marks[ClaimKey(f)] <= ClaimTtl)
                => /\ lookups'[f] # <<>>
                   /\ llm_marks' = llm_marks]_vars

C19_Witness ==
    /\ ClaimKey(1) = ClaimKey(2)
    /\ Rewrote(1) /\ calls[1] # <<>> /\ AllCallsOk(1)
    /\ Rewrote(2) /\ calls[2] # <<>>
    /\ llm_marks[ClaimKey(1)] = 0 /\ now = TickSeconds
    /\ cleanup_task = "running" /\ terminated = 0 /\ term_pc = "idle"

\* C20: an entry marked at a time from which its TTL can still run out on
\* the clock is eventually removed or replaced by a new mark, with no hook
\* needed for it.
C20_MarkersExpire ==
    \A k \in Keys :
        (llm_marks[k] = 0 /\ ClaimTtl < MaxNow) ~> (llm_marks[k] # 0)

\* what does hold: the entry goes unless a cleanup pass has raised an error
C20_ExpireUnlessLoopDied ==
    \A k \in Keys :
        (llm_marks[k] = 0 /\ ClaimTtl < MaxNow)
            ~> (llm_marks[k] # 0 \/ cleanup_errors > 0)

ClaimTimeout == IF config.polish_timeout_seconds < 1 THEN 1
                ELSE config.polish_timeout_seconds
Ended(f) == pc[f] = "awaiting" /\ calls'[f][Len(calls[f])].polished # <<"pending">>

\* C16: a rewrite call is never awaited for longer than polish_timeout_seconds,
\* at least 0.1 s; a call that ends when that time has elapsed, unless its task
\* is cancelled, ends as a failure, whatever the backend delivers then or later:
\* the result recorded for a call never changes, and the chain is what the
\* failure mode makes of a failed run (the run's original segments when
\* keeping the original, the fixed message otherwise).  With a backend that
\* never answers the hook still returns: a hook awaiting a rewrite call
\* eventually has returned or raised.
C16_TimeoutIsFailure ==
    /\ [](\A f \in Frames : waited[f] <= ClaimTimeout)
    /\ [][\A f \in Frames :
            /\ (Ended(f) /\ waited[f] >= ClaimTimeout) =>
                   calls'[f][Len(calls[f])].polished \in {None, <<"cancelled">>}
            /\ \A k \in 1..Len(calls[f]) :
                   calls[f][k].polished # <<"pending">> => calls'[f][k] = calls[f][k]]_vars
    /\ [](\A f \in Frames : (Rewrote(f) /\ SomeCallFailed(f)) =>
            IF Mode = "send_error"
            THEN /\ ~ret[f].success
                 /\ TextIndexes(result[f]) = {FirstTextIndex(orig[f])}
                 /\ result[f][FirstTextIndex(orig[f])] = Plain(GetFailureMessage)
            ELSE result[f] = Assemble(SplitRuns(orig[f]), CallResults(f)))
    /\ \A f \in Frames : (pc[f] = "awaiting") ~> (pc[f] \in {"done", "raised"})

C16_Witness ==
    \E f \in Frames :
        /\ config.polish_timeout_seconds = 0
        /\ Rewrote(f) /\ Len(calls[f]) = 2
        /\ \A k \in 1..2 : calls[f][k].waited = 1 /\ calls[f][k].polished = None
        /\ result[f] = orig[f]

====
